---------------------------- MODULE Spec2Model ----------------------------
(***************************************************************************)
(* A model of gcal_bot.py: the date parser, the status detector, the slot  *)
(* prober, the month scanner, the discovery orchestrator and the poll loop.*)
(*                                                                         *)
(* Values.  A date is the tuple <<year, month, day>>; Python's None is the *)
(* empty tuple <<>>; an optional year is <<>> or <<year>>.  A text is a    *)
(* sequence of tokens: weekday and month names are one token each (the     *)
(* regular expressions match them as literal alternatives), every other    *)
(* character is a token of its own.  An ISO date string is the sequence of *)
(* its ten characters.                                                     *)
(***************************************************************************)
EXTENDS Integers, Sequences, FiniteSets, TLC

VARIABLES
    \* ---- date parser harness
    pPc,        \* "ready" | "done"
    pKind,      \* "full" | "dayonly": which text was built
    pDate,      \* the <<year, month, day>> the text was built from
    pText,      \* dialog_text
    pFallback,  \* fallback_year: <<>> or <<year>>
    pOut,       \* what _parse_date_from_dialog_text gave
    \* ---- status detector harness
    dPc,        \* "ready" | "done"
    dSamples,   \* what the page shows at each sample taken before the bound elapses
    dStatus,    \* what _wait_until_times_or_messages gave
    \* ---- slot prober harness
    qPc,        \* "loop" | "done" (returned) | "raised" (an exception left it)
    qEnv,       \* the page of the call: [slots, max_clicks, closes]
    qI,         \* _probe_week_dates: the loop variable i
    qOut,       \* _probe_week_dates: out
    qAttempts,  \* the indices handed to _click_time_and_read_date so far
    qModal,     \* a modal dialog is open
    \* ---- the program: poll loop, orchestrator, month scanner
    pc,         \* where control is: "poll_top" | "month_top" | "week_probe" |
                \* "scan" | "returned" | "crashed"
    view,       \* the booking page where it is read next: [marker, slots]
    month_step, \* get_earliest_available_date: the loop variable
    w,          \* the loop variable of the week probe or of the month scanner
    seed_min,   \* get_earliest_available_date: min(seed_dates), None before
    month_ym,   \* the scanner's target <<year, month>>, None before
    found,      \* _scan_month_week_by_week: found
    last_rep,   \* _scan_month_week_by_week: last_rep
    r,          \* poll loop: what get_earliest_available_date returned
    last_seen,  \* poll loop: last_seen
    browser,    \* the run's browser: [open, closes, late]
    \* ---- history of the current run and of the poll loop (not program state)
    hist,       \* counters and flags of the current discovery run
    poll,       \* what the completed poll cycles did
    env         \* the site explored and the number of poll cycles explored on it

parserVars == <<pPc, pKind, pDate, pText, pFallback, pOut>>
detectorVars == <<dPc, dSamples, dStatus>>
proberVars == <<qPc, qEnv, qI, qOut, qAttempts, qModal>>

progVars == <<pc, view, month_step, w, seed_min, month_ym, found, last_rep, r, last_seen,
              browser>>
histVars == <<hist, poll, env>>
mainVars == <<progVars, histVars>>

vars == <<parserVars, detectorVars, proberVars, mainVars>>

None == <<>>

\* the parts of the state a specification does not exercise
ParserIdle ==
    /\ pPc = "idle"
    /\ pKind = "full"
    /\ pDate = None
    /\ pText = <<>>
    /\ pFallback = None
    /\ pOut = None

DetectorIdle ==
    /\ dPc = "idle"
    /\ dSamples = <<>>
    /\ dStatus = ""

ProberIdle ==
    /\ qPc = "idle"
    /\ qEnv = None
    /\ qI = 0
    /\ qOut = <<>>
    /\ qAttempts = <<>>
    /\ qModal = FALSE

MainIdle ==
    /\ pc = "idle"
    /\ view = None
    /\ month_step = 0
    /\ w = 0
    /\ seed_min = None
    /\ month_ym = None
    /\ found = {}
    /\ last_rep = None
    /\ r = None
    /\ last_seen = None
    /\ browser = None
    /\ hist = None
    /\ poll = None
    /\ env = None

\* date(...) raising ValueError (day out of range for month)
RaisedValueError == <<"ValueError">>

-----------------------------------------------------------------------------
(* Calendar dates: datetime.date                                           *)

IsLeap(y) == (y % 4 = 0) /\ ((y % 100 # 0) \/ (y % 400 = 0))

DaysInMonth(y, m) ==
    IF m = 2 THEN (IF IsLeap(y) THEN 29 ELSE 28)
    ELSE IF m \in {4, 6, 9, 11} THEN 30 ELSE 31

ValidDate(y, m, d) ==
    /\ y \in 1..9999
    /\ m \in 1..12
    /\ d \in 1..DaysInMonth(y, m)

\* date(y, m, d): the value, or ValueError
MakeDate(y, m, d) == IF ValidDate(y, m, d) THEN <<y, m, d>> ELSE RaisedValueError

\* date ordering: d1 < d2
DateLT(d1, d2) ==
    \/ d1[1] < d2[1]
    \/ d1[1] = d2[1] /\ d1[2] < d2[2]
    \/ d1[1] = d2[1] /\ d1[2] = d2[2] /\ d1[3] < d2[3]

-----------------------------------------------------------------------------
(* Texts                                                                    *)

DigitChars == <<"0", "1", "2", "3", "4", "5", "6", "7", "8", "9">>
DigitSet == {DigitChars[i] : i \in 1..10}
DigitChar(n) == DigitChars[n + 1]
DigitVal(c) == CHOOSE n \in 0..9 : DigitChars[n + 1] = c

WeekdayNames ==
    {"Monday", "Tuesday", "Wednesday", "Thursday", "Friday", "Saturday", "Sunday"}

MonthNameSeq ==
    <<"January", "February", "March", "April", "May", "June", "July",
      "August", "September", "October", "November", "December">>
MonthNames == {MonthNameSeq[i] : i \in 1..12}

\* MONTHS: month name -> number
MONTHS == [n \in MonthNames |-> CHOOSE i \in 1..12 : MonthNameSeq[i] = n]

RECURSIVE ToInt(_)
\* int("...") of a sequence of digit characters
ToInt(ds) ==
    IF ds = <<>> THEN 0
    ELSE 10 * ToInt(SubSeq(ds, 1, Len(ds) - 1)) + DigitVal(ds[Len(ds)])

\* the token at position i, or "" past either end
At(t, i) == IF i \in 1..Len(t) THEN t[i] ELSE ""

IsDigit(c) == c \in DigitSet
\* \w: names and digits are word characters; ",", " ", "-" and the ends are not
IsWord(c) == c \in DigitSet \cup WeekdayNames \cup MonthNames
\* \b between positions i-1 and i
WordBoundary(t, i) == IsWord(At(t, i - 1)) # IsWord(At(t, i))

RECURSIVE SkipWs(_, _)
\* \s* from position i (greedy): the first position that is not a space
SkipWs(t, i) == IF At(t, i) = " " THEN SkipWs(t, i + 1) ELSE i

\* ([1-9]|[12]\d|3[01]) at position k: the lengths of the alternatives that
\* match there, in the order the regex engine tries them
DayAlternatives(t, k) ==
    (IF At(t, k) \in DigitSet \ {"0"} THEN <<1>> ELSE <<>>)
    \o (IF At(t, k) \in {"1", "2"} /\ IsDigit(At(t, k + 1)) THEN <<2>> ELSE <<>>)
    \o (IF At(t, k) = "3" /\ At(t, k + 1) \in {"0", "1"} THEN <<2>> ELSE <<>>)

NoMatch == [matched |-> FALSE]

\* the prefix shared by both patterns, from position i:
\* \b(weekday),\s*(month)\s+ ; gives the position of the day, or 0
DayStart(t, i) ==
    IF /\ WordBoundary(t, i)
       /\ At(t, i) \in WeekdayNames
       /\ At(t, i + 1) = ","
    THEN LET j == SkipWs(t, i + 2) IN
         IF At(t, j) \in MonthNames /\ At(t, j + 1) = " "
         THEN SkipWs(t, j + 1) ELSE 0
    ELSE 0

MonthAt(t, i) == At(t, SkipWs(t, i + 2))

\* ,\s*(20\d{2})\b from position e
FullTail(t, e) ==
    /\ At(t, e) = ","
    /\ LET m == SkipWs(t, e + 1) IN
       /\ At(t, m) = "2"
       /\ At(t, m + 1) = "0"
       /\ IsDigit(At(t, m + 2))
       /\ IsDigit(At(t, m + 3))
       /\ WordBoundary(t, m + 4)

\* FULL_DATE_RE matching at position i
FullDateMatchAt(t, i) ==
    LET k == DayStart(t, i) IN
    IF k = 0 THEN NoMatch
    ELSE LET ok == SelectSeq(DayAlternatives(t, k), LAMBDA L : FullTail(t, k + L)) IN
         IF ok = <<>> THEN NoMatch
         ELSE LET L == Head(ok)
                  m == SkipWs(t, k + L + 1)
              IN [matched |-> TRUE,
                  month |-> MonthAt(t, i),
                  day |-> SubSeq(t, k, k + L - 1),
                  year |-> SubSeq(t, m, m + 3)]

\* MODAL_DAY_RE matching at position i
ModalDayMatchAt(t, i) ==
    LET k == DayStart(t, i) IN
    IF k = 0 THEN NoMatch
    ELSE LET ok == SelectSeq(DayAlternatives(t, k), LAMBDA L : WordBoundary(t, k + L)) IN
         IF ok = <<>> THEN NoMatch
         ELSE [matched |-> TRUE,
               month |-> MonthAt(t, i),
               day |-> SubSeq(t, k, k + Head(ok) - 1)]

\* FULL_DATE_RE.search(text): the leftmost match
FullDateSearch(t) ==
    LET hits == {i \in 1..Len(t) : FullDateMatchAt(t, i).matched} IN
    IF hits = {} THEN NoMatch
    ELSE FullDateMatchAt(t, CHOOSE i \in hits : \A j \in hits : i <= j)

\* MODAL_DAY_RE.search(text): the leftmost match
ModalDaySearch(t) ==
    LET hits == {i \in 1..Len(t) : ModalDayMatchAt(t, i).matched} IN
    IF hits = {} THEN NoMatch
    ELSE ModalDayMatchAt(t, CHOOSE i \in hits : \A j \in hits : i <= j)

\* "not fallback_year": None and 0 are falsy
NoFallbackYear(fy) == fy = None \/ fy = <<0>>

\* the mutated year: the fallback year wins when there is one
FullPatternYearFallbackFirst(mf, fallback_year) ==
    IF fallback_year # None THEN fallback_year[1] ELSE ToInt(mf.year)

\* the year the full pattern's date is built from: int(mf.group(4))
FullPatternYear(mf, fallback_year) == ToInt(mf.year)

\* _parse_date_from_dialog_text(dialog_text, fallback_year)
ParseDateFromDialogText(dialog_text, fallback_year) ==
    LET mf == FullDateSearch(dialog_text) IN
    IF mf.matched
    THEN MakeDate(FullPatternYear(mf, fallback_year), MONTHS[mf.month], ToInt(mf.day))
    ELSE LET m == ModalDaySearch(dialog_text) IN
         IF ~m.matched \/ NoFallbackYear(fallback_year) THEN None
         ELSE MakeDate(fallback_year[1], MONTHS[m.month], ToInt(m.day))

-----------------------------------------------------------------------------
(* The date parser on dialog texts built from dates                         *)

DayDigits(n) ==
    IF n < 10 THEN <<DigitChar(n)>> ELSE <<DigitChar(n \div 10), DigitChar(n % 10)>>

YearDigits(y) ==
    <<DigitChar(y \div 1000), DigitChar((y \div 100) % 10),
      DigitChar((y \div 10) % 10), DigitChar(y % 10)>>

\* "Weekday, Month D, YYYY"
FullText(wd, d) ==
    <<wd, ",", " ", MonthNameSeq[d[2]], " ">> \o DayDigits(d[3])
        \o <<",", " ">> \o YearDigits(d[1])

\* "Weekday, Month D"
DayOnlyText(wd, m, day) == <<wd, ",", " ", MonthNameSeq[m], " ">> \o DayDigits(day)

\* years of the dates the texts are built from: both sides of 2000 and 2099
ParserYears == {1999, 2000, 2024, 2026, 2099, 2100}
\* fallback years handed to the parser: a leap year and a non-leap year
FallbackYears == {2024, 2025}
ParserWeekdays == {"Tuesday", "Friday"}

ParserInit ==
    /\ DetectorIdle
    /\ ProberIdle
    /\ MainIdle
    /\ pPc = "ready"
    /\ pOut = None
    /\ pKind \in {"full", "dayonly"}
    /\ pFallback \in {None} \cup {<<y>> : y \in FallbackYears}
    /\ \E wd \in ParserWeekdays, y \in ParserYears, m \in 1..12, d \in 1..31 :
          /\ pDate = <<y, m, d>>
          /\ IF pKind = "full"
             THEN ValidDate(y, m, d) /\ pText = FullText(wd, pDate)
             ELSE y = 2026 /\ pText = DayOnlyText(wd, m, d)

Parse ==
    /\ pPc = "ready"
    /\ pOut' = ParseDateFromDialogText(pText, pFallback)
    /\ pPc' = "done"
    /\ UNCHANGED <<pKind, pDate, pText, pFallback>>
    /\ UNCHANGED <<detectorVars, proberVars, mainVars>>

ParserNext == Parse

SpecParser == ParserInit /\ [][ParserNext]_vars

-----------------------------------------------------------------------------
(* Status detector: _wait_until_times_or_messages                           *)

\* what a locator for a marker text does at one sample
TextObs == {"visible", "hidden", "raises"}
\* what _get_time_buttons(page).count() does at one sample
ButtonObs == {"some", "none", "raises"}

Samples == [nxty : TextObs, noavail : TextObs, buttons : ButtonObs]

\* _page_has_text: count() > 0 and is_visible(); an exception gives False
PageHasText(obs) == obs = "visible"

HasNoTimesNextYearMessage(s) == PageHasText(s.nxty)
HasNoAvailabilityMessage(s) == PageHasText(s.noavail)
\* _get_time_buttons(page).count() > 0, an exception swallowed
HasTimeButtons(s) == s.buttons = "some"

\* the checks of one pass of the loop, in the mutated order: noavail first
SampleStatusNoAvailFirst(s) ==
    IF HasNoAvailabilityMessage(s) THEN "noavail"
    ELSE IF HasNoTimesNextYearMessage(s) THEN "nxty"
    ELSE IF HasTimeButtons(s) THEN "times"
    ELSE ""

\* the checks of one pass of the loop; "" when the pass falls through to the wait
SampleStatus(s) ==
    IF HasNoTimesNextYearMessage(s) THEN "nxty"
    ELSE IF HasNoAvailabilityMessage(s) THEN "noavail"
    ELSE IF HasTimeButtons(s) THEN "times"
    ELSE ""

RECURSIVE WaitUntilTimesOrMessages(_)
\* the loop over the samples that fit in the bound, then "timeout"
WaitUntilTimesOrMessages(samples) ==
    IF samples = <<>> THEN "timeout"
    ELSE IF SampleStatus(Head(samples)) # "" THEN SampleStatus(Head(samples))
    ELSE WaitUntilTimesOrMessages(Tail(samples))

\* samples that fit in the bound
MaxSamples == 2

RECURSIVE SeqsUpTo(_, _)
\* all sequences over S of length at most n
SeqsUpTo(S, n) ==
    IF n = 0 THEN {<<>>}
    ELSE LET shorter == SeqsUpTo(S, n - 1) IN
         shorter \cup {Append(q, x) : q \in {p \in shorter : Len(p) = n - 1}, x \in S}

DetectorInit ==
    /\ ParserIdle
    /\ ProberIdle
    /\ MainIdle
    /\ dPc = "ready"
    /\ dStatus = ""
    /\ dSamples \in SeqsUpTo(Samples, MaxSamples)

Detect ==
    /\ dPc = "ready"
    /\ dStatus' = WaitUntilTimesOrMessages(dSamples)
    /\ dPc' = "done"
    /\ UNCHANGED dSamples
    /\ UNCHANGED <<parserVars, proberVars, mainVars>>

DetectorNext == Detect

SpecDetector == DetectorInit /\ [][DetectorNext]_vars

-----------------------------------------------------------------------------
(* Configuration                                                            *)

max_month_forward == 2
max_weeks_per_month == 3
max_time_clicks_per_week == 3
WEEK_PROBE_STEPS_DEFAULT == 3
FAST_FORWARD_MONTHS_ON_NEXT_YEAR == 10
\* the 2 of min(2, max_time_clicks_per_week)
SEED_CLICK_CAP == 2
only_notify_on_change == TRUE

\* poll cycles explored on PollViews
MaxCycles == 3

\* time-slot buttons a view is described by: range(min(n, max_clicks)) never
\* reaches a button past the click cap
MaxSlots == max_time_clicks_per_week

Min2(a, b) == IF a <= b THEN a ELSE b

-----------------------------------------------------------------------------
(* The booking page                                                         *)

\* dates the slot dialogs can show: two in March 2026, one in April 2026
SlotDates == {<<2026, 3, 10>>, <<2026, 3, 12>>, <<2026, 4, 2>>}
\* what clicking one slot gives: a parsed date, or None (slot not visible,
\* dialog not opened, text matching neither pattern)
SlotOutcomes == SlotDates \cup {None}

\* a view: the marker text it shows and, per time-slot button, what clicking
\* it gives
Views ==
    {[marker |-> "none", slots |-> q] : q \in SeqsUpTo(SlotOutcomes, MaxSlots)}
    \cup {[marker |-> m, slots |-> <<>>] : m \in {"noavail", "nxty"}}

\* the few views of the site the long poll runs are explored on
PollViews ==
    {[marker |-> "noavail", slots |-> <<>>],
     [marker |-> "none", slots |-> <<<<2026, 3, 10>>>>],
     [marker |-> "none", slots |-> <<<<2026, 3, 12>>>>]}

\* the views the runs under fairness are explored on: every status, a slot
\* whose click gives no date, slots in two months
TermViews ==
    PollViews
    \cup {[marker |-> "nxty", slots |-> <<>>],
          [marker |-> "none", slots |-> <<None, <<2026, 4, 2>>>>]}

\* what one sample of the status detector observes of a view
ViewSample(v) ==
    [nxty |-> IF v.marker = "nxty" THEN "visible" ELSE "hidden",
     noavail |-> IF v.marker = "noavail" THEN "visible" ELSE "hidden",
     buttons |-> IF Len(v.slots) > 0 THEN "some" ELSE "none"]

\* _wait_until_times_or_messages on a view that stays as it is
StatusOf(v) == WaitUntilTimesOrMessages(<<ViewSample(v)>>)

-----------------------------------------------------------------------------
(* Slot prober                                                              *)

Range(q) == {q[i] : i \in 1..Len(q)}

\* _click_time_and_read_date(page, idx) on a view with these slots
ClickTimeAndReadDate(slots, idx) ==
    IF Len(slots) = 0 \/ idx >= Len(slots) THEN None ELSE slots[idx + 1]

\* the mutated test: every parsed date is kept
FreshAlways(d, out) == d # None

\* "if d and d not in seen"
Fresh(d, out) == d # None /\ d \notin Range(out)

RECURSIVE ProbeFrom(_, _, _, _)
\* the loop of _probe_week_dates from index i, out being the dates so far
ProbeFrom(slots, i, limit, out) ==
    IF i >= limit THEN out
    ELSE LET d == ClickTimeAndReadDate(slots, i) IN
         ProbeFrom(slots, i + 1, limit, IF Fresh(d, out) THEN Append(out, d) ELSE out)

\* _probe_week_dates(page, max_clicks=max_clicks)
ProbeWeekDates(slots, max_clicks) ==
    ProbeFrom(slots, 0, Min2(Len(slots), max_clicks), <<>>)

\* the mutated choice: the latest date
MaxDate(S) == CHOOSE d \in S : \A e \in S : d = e \/ DateLT(e, d)

\* min(...) of a non-empty set of dates
MinDate(S) == CHOOSE d \in S : \A e \in S : d = e \/ DateLT(d, e)

TwoDigits(n) == <<DigitChar(n \div 10), DigitChar(n % 10)>>

\* date.isoformat(): "YYYY-MM-DD"
Isoformat(d) ==
    YearDigits(d[1]) \o <<"-">> \o TwoDigits(d[2]) \o <<"-">> \o TwoDigits(d[3])

\* EarliestAvailability(iso_date, source) as <<iso_date, source>>
EarliestAvailability(iso_date, source) == <<iso_date, source>>

-----------------------------------------------------------------------------
(* The slot prober on a page whose slot buttons behave in given ways        *)

\* dates the dialogs of the probed page show
ProbeDates == {<<2026, 3, 10>>, <<2026, 3, 12>>}

\* what happens at one slot button in _click_time_and_read_date:
\*   invisible     btn.is_visible() is false (line 234)
\*   click_raises  btn.click(timeout=2500) raises (line 241)
\*   no_dialog     the dialog did not open (line 245)
\*   no_match      the dialog text matches neither pattern
\*   date          the dialog text parses to a date
SlotBehaviours ==
    {[kind |-> k, date |-> None] :
        k \in {"invisible", "click_raises", "no_dialog", "no_match"}}
    \cup {[kind |-> "date", date |-> d] : d \in ProbeDates}

\* slot buttons of the probed page at most
MaxProbeSlots == 4

\* what _click_time_and_read_date returns at each button that does not raise
SlotResults(bs) == [k \in 1..Len(bs) |-> bs[k].date]

\* _dismiss_modal: an open modal is closed when the cancel click or the Escape
\* key works; a failure is swallowed (line 147) and leaves it open
DismissModal(modal, closes) == modal /\ ~closes

\* min(n, max_clicks) of the call
ProbeLimit == Min2(Len(qEnv.slots), qEnv.max_clicks)

ProberInit ==
    /\ ParserIdle
    /\ DetectorIdle
    /\ MainIdle
    /\ qPc = "loop"
    /\ qI = 0
    /\ qOut = <<>>
    /\ qAttempts = <<>>
    /\ qModal \in BOOLEAN
    /\ qEnv \in [slots : SeqsUpTo(SlotBehaviours, MaxProbeSlots),
                 max_clicks : 0..(MaxProbeSlots + 1),
                 closes : BOOLEAN]

\* lines 336-340: one pass of the loop, _click_time_and_read_date included
ProbeClick ==
    /\ qPc = "loop"
    /\ qI < ProbeLimit
    /\ LET b == qEnv.slots[qI + 1]
           entry == DismissModal(qModal, qEnv.closes)
       IN  /\ qAttempts' = Append(qAttempts, qI)
           /\ IF b.kind = "click_raises"
              THEN /\ qPc' = "raised"
                   /\ qModal' = entry
                   /\ UNCHANGED <<qI, qOut>>
              ELSE /\ qPc' = "loop"
                   /\ qI' = qI + 1
                   /\ qOut' = ProbeFrom(SlotResults(qEnv.slots), qI, qI + 1, qOut)
                   /\ qModal' = IF b.kind \in {"no_match", "date"}
                                THEN DismissModal(TRUE, qEnv.closes)
                                ELSE entry
    /\ UNCHANGED <<qEnv, parserVars, detectorVars, mainVars>>

\* line 344: the loop is over, return out
ProbeReturn ==
    /\ qPc = "loop"
    /\ qI >= ProbeLimit
    /\ qPc' = "done"
    /\ UNCHANGED <<qEnv, qI, qOut, qAttempts, qModal>>
    /\ UNCHANGED <<parserVars, detectorVars, mainVars>>

ProberNext ==
    \/ ProbeClick
    \/ ProbeReturn

SpecProber == ProberInit /\ [][ProberNext]_vars

-----------------------------------------------------------------------------
(* Month scanner: one pass of the loop of _scan_month_week_by_week          *)

\* the mutated filter: every date passes
InMonthAlways(d, ym) == TRUE

\* (d.year, d.month) == month_ym
InMonth(d, ym) == <<d[1], d[2]>> = ym

\* the mutated test: the seed date is never recognised
IsSeedNever(d, seed) == FALSE

\* d == seed_min
IsSeed(d, seed) == d = seed

RECURSIVE AddWeekDates(_, _, _, _)
\* "for d in week_dates": adds the in-month dates to found, in order, and
\* stops at the seed date; exit tells whether it returned from there
AddWeekDates(f, week_dates, ym, seed) ==
    IF week_dates = <<>> THEN [found |-> f, exit |-> FALSE]
    ELSE LET d == Head(week_dates) IN
         IF InMonth(d, ym)
         THEN IF IsSeed(d, seed)
              THEN [found |-> f \cup {d}, exit |-> TRUE]
              ELSE AddWeekDates(f \cup {d}, Tail(week_dates), ym, seed)
         ELSE AddWeekDates(f, Tail(week_dates), ym, seed)

\* "for w in range(max_weeks)": is there a pass after pass wk
WeekLoopHasNext(wk) == wk + 1 < max_weeks_per_month

\* the mutated update: a week step without a representative date forgets
\* the earlier one
NextLastRepReset(rep, lrep) == rep

\* "if rep is not None: last_rep = rep"
NextLastRep(rep, lrep) == IF rep # None THEN rep ELSE lrep

\* One pass on view v up to the next-week click: what it leaves in found and
\* last_rep, its status and representative date, the slots it attempted, the
\* dates it probed, and how it ends: "return" (early exit), "break" (nxty,
\* rep outside the month, rep repeated) or "click"
ScanPass(v, f, lrep, ym, seed) ==
    LET status == StatusOf(v)
        week_dates == IF status = "times"
                      THEN ProbeWeekDates(v.slots, max_time_clicks_per_week)
                      ELSE <<>>
        rep == IF week_dates # <<>> THEN MinDate(Range(week_dates)) ELSE None
        acc == AddWeekDates(f, week_dates, ym, seed)
        pass(e, fnd, lr) ==
            [end |-> e, found |-> fnd, last_rep |-> lr,
             probed |-> Range(week_dates), status |-> status, rep |-> rep,
             attempts |-> IF status = "times"
                          THEN Min2(Len(v.slots), max_time_clicks_per_week)
                          ELSE 0]
    IN  IF status = "nxty"
        THEN pass("break", f, lrep)
        ELSE IF acc.exit
        THEN pass("return", acc.found, lrep)
        ELSE IF rep # None /\ ~InMonth(rep, ym)
        THEN pass("break", acc.found, lrep)
        ELSE IF rep # None /\ lrep # None /\ rep = lrep
        THEN pass("break", acc.found, lrep)
        ELSE pass("click", acc.found, NextLastRep(rep, lrep))

-----------------------------------------------------------------------------
(* Orchestrator helpers                                                     *)

\* the mutated loop: a month loop without its bound
MonthLoopHasNextAlways(ms) == TRUE

\* the mutated range: one month step too many
MonthLoopHasNextOneMore(ms) == ms + 1 < max_month_forward + 2

\* "for month_step in range(max_month_forward + 1)": is there a pass after ms
MonthLoopHasNext(ms) == ms + 1 < max_month_forward + 1

\* "if month_step >= max_month_forward: break"
BudgetExhausted(ms) == ms >= max_month_forward

\* the mutated result: a failed click goes unnoticed
FastForwardMonthsBlind(okClicks, n) == TRUE

\* _fast_forward_months(page, n) when the first okClicks next-month clicks occur
FastForwardMonths(okClicks, n) == okClicks >= n

\* the mutated test: notifies whenever a date was found
ShouldNotifyAlways(current, seen) == current # <<>>

\* "current and (not only_notify_on_change or current != last_seen)"
ShouldNotify(current, seen) ==
    current # <<>> /\ (~only_notify_on_change \/ current # seen)

-----------------------------------------------------------------------------
(* The program: poll_earliest_and_notify calling get_earliest_available_date*)

\* no browser: before line 426 and after the run's return value is taken
NoBrowser == [open |-> FALSE, closes |-> 0, late |-> FALSE]

\* line 426: p.chromium.launch(...)
BrowserLaunch == [open |-> TRUE, closes |-> 0, late |-> FALSE]

\* a call on page; late records one made on a browser that is not open
PageOp(b) == [b EXCEPT !.late = @ \/ ~b.open]

\* the mutated return: no browser.close() before it
BrowserCloseSkipped(b) == b

\* browser.close()
BrowserClose(b) == [b EXCEPT !.open = FALSE, !.closes = @ + 1]

HistInit ==
    [monthIters |-> 0,          \* passes of the month loop begun
     nextMonthClicks |-> 0,     \* next-month clicks outside fast-forward
     ffCount |-> 0,             \* calls of _fast_forward_months
     clickedNextWeek |-> FALSE, \* a next-week click occurred
     weekSteps |-> 0,           \* passes of the current scanner invocation
     weekClicks |-> 0,          \* its next-week clicks
     scanParsed |-> {},         \* the dates its probes parsed
     rediscovered |-> FALSE,    \* one of its probes parsed the seed date
     reps |-> <<>>,             \* the representative date of each of its passes
     step |-> [status |-> "", probed |-> FALSE, added |-> FALSE, end |-> ""],
                                \* its latest pass: the status, whether a slot
                                \* was attempted, whether found grew, and the
                                \* end: "return" | "break" | "click_failed" |
                                \* "clicked"
     stableSeeds |-> {},        \* the dates the seed probe parsed when the run's
                                \* first status was times; emptied when the view
                                \* re-renders on its own
     jumps |-> 0,               \* calls of _click_jump_to_next_bookable
     probeFF |-> [step |-> -1, clicks |-> -1],
                                \* month_step and nextMonthClicks when a
                                \* fast-forward of the forward week probe has
                                \* just succeeded; -1 otherwise
     stall |-> "",              \* what stopped the navigation: "budget" (line
                                \* 499 at the last month step), "next_month" (its
                                \* click failed), "fast_forward" (one of its
                                \* clicks failed)
     ffSeeds |-> {}]            \* the dates the seed probe parsed when the run's
                                \* first status was nxty, its fast-forward
                                \* succeeded and the next status was times;
                                \* emptied when the view re-renders on its own

\* the site explored in depth for one cycle, or a small site for MaxCycles
Environments ==
    {[site |-> "rich", maxCycles |-> 1],
     [site |-> "small", maxCycles |-> MaxCycles]}

\* the views the site of environment e can show
Pages(e) ==
    IF e.site = "rich" THEN Views
    ELSE IF e.site = "small" THEN PollViews
    ELSE TermViews

Init ==
    /\ ParserIdle
    /\ DetectorIdle
    /\ ProberIdle
    /\ env \in Environments
    /\ pc = "poll_top"
    /\ view = None
    /\ month_step = 0
    /\ w = 0
    /\ seed_min = None
    /\ month_ym = None
    /\ found = {}
    /\ last_rep = None
    /\ r = None
    /\ last_seen = None
    /\ browser = NoBrowser
    /\ hist = HistInit
    /\ poll = [log |-> <<>>]

\* the assignments of a step that leaves the browser as b
Step(p, v, ms, wk, sm, ym, f, lr, res, h, b) ==
    /\ pc' = p
    /\ view' = v
    /\ month_step' = ms
    /\ w' = wk
    /\ seed_min' = sm
    /\ month_ym' = ym
    /\ found' = f
    /\ last_rep' = lr
    /\ r' = res
    /\ hist' = h
    /\ browser' = b
    /\ UNCHANGED <<last_seen, poll, env, parserVars, detectorVars, proberVars>>

\* the assignments of a step inside get_earliest_available_date: it reads or
\* clicks the page
Goto(p, v, ms, wk, sm, ym, f, lr, res, h) ==
    Step(p, v, ms, wk, sm, ym, f, lr, res, h, PageOp(browser))

\* browser.close(); return res: lines 444-445, 468-469, 496-497, 505-506,
\* each after the page operations of its pass
Return(res, f, lr, h) ==
    Step("returned", None, month_step, w, seed_min, month_ym, f, lr, res, h,
         BrowserClose(PageOp(browser)))

\* the next pass of the month loop on view v, or the end of the loop
NextMonthStep(v, f, lr, h) ==
    IF MonthLoopHasNext(month_step)
    THEN Goto("month_top", v, month_step + 1, w, seed_min, month_ym, f, lr, r, h)
    ELSE Return(None, f, lr, h)

\* lines 499-503: the end of a pass that gave no result
EndOfMonthStep(f, lr, h) ==
    IF BudgetExhausted(month_step)
    THEN Return(None, f, lr, [h EXCEPT !.stall = "budget"])
    ELSE \/ Return(None, f, lr, [h EXCEPT !.stall = "next_month"])
         \/ \E v \in Pages(env) :
               NextMonthStep(v, f, lr, [h EXCEPT !.nextMonthClicks = @ + 1])

\* the mutated step: after the fast-forward, on to line 499
AfterFastForwardFallsThrough(v, h) == EndOfMonthStep(found, last_rep, h)

\* lines 446-449: the jump shortcut again, "continue" to the next pass on view v
AfterFastForward(v, h) == NextMonthStep(v, found, last_rep, h)

\* lines 480-493: with seed dates the scanner starts on the view v they were
\* read from, without them line 499 is next
Seeded(seeds, v, h) ==
    IF seeds # <<>>
    THEN LET sm == MinDate(Range(seeds)) IN
         Goto("scan", v, month_step, 0, sm, <<sm[1], sm[2]>>, {}, None, r, h)
    ELSE EndOfMonthStep(found, last_rep, h)

\* the scanner returns f: lines 494-497, or on to line 499
ScanReturns(f, lr, h) ==
    IF f # {}
    THEN Return(EarliestAvailability(Isoformat(MinDate(f)), "modal_date_min"), f, lr, h)
    ELSE EndOfMonthStep(f, lr, h)

\* lines 456-459: pass wk of the forward week probe up to its wait, or the
\* end of that loop
WeekProbeClick(wk, h) ==
    IF wk < WEEK_PROBE_STEPS_DEFAULT
    THEN \/ EndOfMonthStep(found, last_rep, h)
         \/ \E v \in Pages(env) :
               Goto("week_probe", v, month_step, wk, seed_min, month_ym, found,
                    last_rep, r, [h EXCEPT !.clickedNextWeek = TRUE])
    ELSE EndOfMonthStep(found, last_rep, h)

\* lines 425-431: launch, goto, the jump shortcut
StartRun ==
    /\ pc = "poll_top"
    /\ Len(poll.log) < env.maxCycles
    /\ \E v \in Pages(env) :
          Step("month_top", v, 0, 0, None, None, {}, None, None,
               [HistInit EXCEPT !.jumps = 1], PageOp(BrowserLaunch))

\* lines 434-459: a pass of the month loop from its head
MonthTop ==
    /\ pc = "month_top"
    /\ LET status == StatusOf(view)
           first == hist.monthIters = 0
           h1 == [hist EXCEPT !.monthIters = @ + 1,
                              !.probeFF = HistInit.probeFF,
                              !.weekSteps = 0, !.weekClicks = 0,
                              !.scanParsed = {}, !.rediscovered = FALSE,
                              !.reps = <<>>, !.step = HistInit.step]
           afterFF == hist.monthIters = 1 /\ hist.ffCount = 1 /\ ~hist.clickedNextWeek
       IN  IF status = "nxty"
           THEN \E okClicks \in 0..FAST_FORWARD_MONTHS_ON_NEXT_YEAR :
                   LET h2 == [h1 EXCEPT !.ffCount = @ + 1,
                                        !.stall = IF okClicks < FAST_FORWARD_MONTHS_ON_NEXT_YEAR
                                                  THEN "fast_forward" ELSE @]
                   IN
                   IF ~FastForwardMonths(okClicks, FAST_FORWARD_MONTHS_ON_NEXT_YEAR)
                   THEN Return(None, found, last_rep, h2)
                   ELSE \E v \in Pages(env) :
                           AfterFastForward(v, [h2 EXCEPT !.jumps = @ + 1])
           ELSE IF status = "times"
           THEN LET seeds == ProbeWeekDates(view.slots,
                                 Min2(SEED_CLICK_CAP, max_time_clicks_per_week))
                IN  Seeded(seeds, view,
                           [h1 EXCEPT !.stableSeeds = IF first THEN Range(seeds) ELSE @,
                                      !.ffSeeds = IF afterFF THEN Range(seeds) ELSE @])
           ELSE WeekProbeClick(0, h1)

\* lines 460-478: the forward week probe after a next-week click, then its
\* next pass
WeekProbe ==
    /\ pc = "week_probe"
    /\ LET s2 == StatusOf(view) IN
       IF s2 = "nxty"
       THEN \E okClicks \in 0..FAST_FORWARD_MONTHS_ON_NEXT_YEAR :
               LET h2 == [hist EXCEPT !.ffCount = @ + 1,
                                      !.stall = IF okClicks < FAST_FORWARD_MONTHS_ON_NEXT_YEAR
                                                THEN "fast_forward" ELSE @]
               IN
               IF ~FastForwardMonths(okClicks, FAST_FORWARD_MONTHS_ON_NEXT_YEAR)
               THEN Return(None, found, last_rep, h2)
               ELSE EndOfMonthStep(found, last_rep,
                        [h2 EXCEPT !.jumps = @ + 1,
                                   !.probeFF = [step |-> month_step,
                                                clicks |-> h2.nextMonthClicks]])
       ELSE IF s2 = "times"
       THEN Seeded(ProbeWeekDates(view.slots,
                       Min2(SEED_CLICK_CAP, max_time_clicks_per_week)), view, hist)
       ELSE WeekProbeClick(w + 1, hist)

\* lines 363-404: one pass of the scanner's loop; when the scanner returns,
\* lines 494-503
ScanWeek ==
    /\ pc = "scan"
    /\ LET p == ScanPass(view, found, last_rep, month_ym, seed_min)
           h1 == [hist EXCEPT !.weekSteps = @ + 1,
                              !.scanParsed = @ \cup p.probed,
                              !.rediscovered = @ \/ seed_min \in p.probed,
                              !.reps = Append(@, p.rep),
                              !.step = [status |-> p.status,
                                        probed |-> p.attempts > 0,
                                        added |-> p.found # found,
                                        end |-> p.end]]
       IN  IF p.end # "click"
           THEN ScanReturns(p.found, p.last_rep, h1)
           ELSE \/ ScanReturns(p.found, p.last_rep,
                               [h1 EXCEPT !.step.end = "click_failed"])
                \/ \E v \in Pages(env) :
                      LET h2 == [h1 EXCEPT !.weekClicks = @ + 1,
                                           !.clickedNextWeek = TRUE,
                                           !.step.end = "clicked"]
                      IN  IF WeekLoopHasNext(w)
                          THEN Goto("scan", v, month_step, w + 1, seed_min, month_ym,
                                    p.found, p.last_rep, r, h2)
                          ELSE ScanReturns(p.found, p.last_rep, h2)

\* The page re-renders on its own between the seed probe and the scanner's
\* first pass, the one place where the program reads a view twice; anywhere
\* else the view read next is already any view of the site.
Rerender ==
    /\ pc = "scan"
    /\ hist.weekSteps = 0
    /\ \E v \in Pages(env) \ {view} :
          Step(pc, v, month_step, w, seed_min, month_ym, found, last_rep, r,
               [hist EXCEPT !.stableSeeds = {}, !.ffSeeds = {}], browser)

\* an exception leaves get_earliest_available_date: page.goto timing out, a
\* click or a locator call outside any try, date() raising ValueError; nothing
\* in poll_earliest_and_notify catches it and the process ends
RunRaises ==
    /\ \/ pc = "poll_top" /\ Len(poll.log) < env.maxCycles
       \/ pc \in {"month_top", "week_probe", "scan"}
    /\ Step("crashed", None, 0, 0, None, None, {}, None, None, HistInit,
            IF pc = "poll_top" THEN BrowserLaunch ELSE PageOp(browser))

\* lines 527-539: the rest of a poll cycle
PollNotify ==
    /\ pc = "returned"
    /\ LET current == IF r # None THEN r[1] ELSE None
           note == ShouldNotify(current, last_seen)
       IN  /\ last_seen' = IF note THEN current ELSE last_seen
           /\ poll' = [log |-> Append(poll.log, [current |-> current, notified |-> note])]
    /\ pc' = "poll_top"
    /\ view' = None
    /\ month_step' = 0
    /\ w' = 0
    /\ seed_min' = None
    /\ month_ym' = None
    /\ found' = {}
    /\ last_rep' = None
    /\ r' = None
    /\ browser' = NoBrowser
    /\ hist' = HistInit
    /\ UNCHANGED <<env, parserVars, detectorVars, proberVars>>

Next ==
    \/ StartRun
    \/ MonthTop
    \/ WeekProbe
    \/ ScanWeek
    \/ Rerender
    \/ RunRaises
    \/ PollNotify

Spec == Init /\ [][Next]_vars

\* A run in which every call on the page returns: get_earliest_available_date
\* is straight-line code inside bounded for loops, so a pass that has started
\* is carried out; whether a further poll cycle starts is left open.
NextNoRaise ==
    \/ StartRun
    \/ MonthTop
    \/ WeekProbe
    \/ ScanWeek
    \/ Rerender
    \/ PollNotify

TermInit ==
    /\ ParserIdle
    /\ DetectorIdle
    /\ ProberIdle
    /\ env = [site |-> "term", maxCycles |-> 1]
    /\ pc = "poll_top"
    /\ view = None
    /\ month_step = 0
    /\ w = 0
    /\ seed_min = None
    /\ month_ym = None
    /\ found = {}
    /\ last_rep = None
    /\ r = None
    /\ last_seen = None
    /\ browser = NoBrowser
    /\ hist = HistInit
    /\ poll = [log |-> <<>>]

SpecTerm ==
    /\ TermInit
    /\ [][NextNoRaise]_vars
    /\ WF_vars(MonthTop)
    /\ WF_vars(WeekProbe)
    /\ WF_vars(ScanWeek)

-----------------------------------------------------------------------------
(* C1.  Poll Loop dedupe.                                                   *)

RECURSIVE LastNotified(_, _)
\* the iso_date of the latest notification among the first k cycles, None if none
LastNotified(log, k) ==
    IF k = 0 THEN None
    ELSE IF log[k].notified THEN log[k].current
    ELSE LastNotified(log, k - 1)

\* C1: with only_notify_on_change enabled, a cycle notifies exactly when it
\* found a date that differs from the date of the latest earlier notification
\* (none at first); last_seen is the date of the latest notification; so of
\* two consecutive cycles with the same date the second does not notify, and
\* a cycle whose date differs from the previous cycle's date notifies.
C1_Dedupe ==
    LET log == poll.log IN
    /\ \A i \in 1..Len(log) :
          log[i].notified <=>
              (log[i].current # None /\ log[i].current # LastNotified(log, i - 1))
    /\ last_seen = LastNotified(log, Len(log))
    /\ \A i \in 1..(Len(log) - 1) :
          (log[i].current # None /\ log[i + 1].current # None) =>
              (log[i + 1].notified <=> log[i + 1].current # log[i].current)

\* three cycles: the same date twice, then another date; notifications 1 and 3
C1_Witness ==
    /\ Len(poll.log) = 3
    /\ poll.log[1].current = Isoformat(<<2026, 3, 10>>)
    /\ poll.log[2].current = Isoformat(<<2026, 3, 10>>)
    /\ poll.log[3].current = Isoformat(<<2026, 3, 12>>)
    /\ poll.log[1].notified
    /\ ~poll.log[2].notified
    /\ poll.log[3].notified
    /\ last_seen = Isoformat(<<2026, 3, 12>>)

(* C2.  The result is the minimum discovered date.                          *)

\* C2 as stated: when a run returns a result, no date of the scanned month
\* that a slot dialog showed during the scanner invocation that produced the
\* result is earlier than the returned date.
C2_ResultIsMinimum ==
    (pc = "returned" /\ r # None) =>
        \A d \in hist.scanParsed : \A e \in SlotDates :
            (<<d[1], d[2]>> = month_ym /\ r[1] = Isoformat(e)) => ~DateLT(d, e)

(* C3.  End-to-end scenario 1.                                              *)

\* C3: when the run's first status is times, its seed probe reads at least
\* one date and the view does not re-render, the run goes from the seed probe
\* to the scanner's first pass and returns from it, with the least seed-probed
\* date as iso_date and source modal_date_min, without a next-week click, a
\* next-month click or a fast-forward.
C3_Scenario1 ==
    hist.stableSeeds # {} =>
        /\ pc \in {"scan", "returned"}
        /\ pc = "scan" => hist.weekSteps = 0
        /\ pc = "returned" =>
              \E d \in hist.stableSeeds :
                  /\ \A e \in hist.stableSeeds : ~DateLT(e, d)
                  /\ r = <<Isoformat(d), "modal_date_min">>
        /\ ~hist.clickedNextWeek
        /\ hist.nextMonthClicks = 0
        /\ hist.ffCount = 0

\* the seed probe read two dates, the later one first, the scanner's probe a
\* third, and the run returned the earlier seed date
C3_Witness ==
    /\ pc = "returned"
    /\ hist.stableSeeds = {<<2026, 3, 10>>, <<2026, 3, 12>>}
    /\ hist.scanParsed = SlotDates
    /\ found = {<<2026, 3, 10>>, <<2026, 3, 12>>}
    /\ r = <<Isoformat(<<2026, 3, 10>>), "modal_date_min">>

(* C4.  The poll loop survives a failed discovery run.                      *)

\* C4 as stated: a discovery run that fails never ends the poll loop.
C4_LoopSurvives == pc # "crashed"

(* C5.  Month Scanner in-month filter.                                      *)

\* C5: at every point of a scanner invocation and in what it returns, found
\* holds only dates of the target month.
C5_InMonth == \A d \in found : <<d[1], d[2]>> = month_ym

\* a scanner that probed a date of another month returned a non-empty set
C5_Witness ==
    /\ pc = "returned"
    /\ found # {}
    /\ \E d \in hist.scanParsed : <<d[1], d[2]>> # month_ym

(* C6.  Month Scanner early exit.                                           *)

\* C6: once a probe of the scanner has read the seed date, the scanner has
\* returned a set holding it (and the run its result): the pass that read it
\* made no next-week click and no pass follows it.
C6_EarlyExit ==
    hist.rediscovered =>
        /\ pc = "returned"
        /\ r # None
        /\ seed_min \in found
        /\ hist.weekClicks = hist.weekSteps - 1

\* the seed date read again in a later week, with week budget left
C6_Witness ==
    /\ hist.rediscovered
    /\ hist.weekSteps > 1
    /\ hist.weekSteps < max_weeks_per_month

(* C7.  Iteration bounds.                                                   *)

\* C7: a run begins at most max_month_forward + 1 passes of the month loop
\* (fast-forward passes included) and makes at most max_month_forward
\* next-month clicks outside fast-forward; a scanner invocation makes at most
\* max_weeks_per_month passes and as many next-week clicks.
C7_Bounds ==
    /\ hist.monthIters <= max_month_forward + 1
    /\ hist.nextMonthClicks <= max_month_forward
    /\ hist.weekSteps <= max_weeks_per_month
    /\ hist.weekClicks <= max_weeks_per_month

\* every bound met at once
C7_Witness ==
    /\ hist.monthIters = max_month_forward + 1
    /\ hist.nextMonthClicks = max_month_forward
    /\ hist.weekSteps = max_weeks_per_month
    /\ hist.weekClicks = max_weeks_per_month

-----------------------------------------------------------------------------
(* C9.  Date Parser round-trip.                                             *)

C10_FallbackTotal ==
    (pPc = "done" /\ pKind = "dayonly") =>
        pOut = (IF pFallback = None THEN None
                ELSE <<pFallback[1], pDate[2], pDate[3]>>)

(* C8.  Status Detector priority.                                           *)

SomethingSeen(s) ==
    s.nxty = "visible" \/ s.noavail = "visible" \/ s.buttons = "some"

\* C8: at the first sample at which anything is observed, nxty wins over
\* noavail and times, noavail wins over times, times is returned when only
\* time-slot controls are present; timeout is returned exactly when no sample
\* before the bound shows any of the three.
C8_Priority ==
    dPc = "done" =>
        LET seen == {i \in 1..Len(dSamples) : SomethingSeen(dSamples[i])} IN
        /\ (dStatus = "timeout") <=> (seen = {})
        /\ seen # {} =>
              LET s == dSamples[CHOOSE i \in seen : \A j \in seen : i <= j] IN
              /\ s.nxty = "visible" => dStatus = "nxty"
              /\ (s.nxty # "visible" /\ s.noavail = "visible") => dStatus = "noavail"
              /\ (s.nxty # "visible" /\ s.noavail # "visible") => dStatus = "times"

\* all three visible at the deciding sample, after a sample showing nothing
C8_Witness ==
    /\ dPc = "done"
    /\ Len(dSamples) = 2
    /\ ~SomethingSeen(dSamples[1])
    /\ dSamples[2] = [nxty |-> "visible", noavail |-> "visible", buttons |-> "some"]
    /\ dStatus = "nxty"

-----------------------------------------------------------------------------
(* C11.  Slot Prober dedupe.                                                *)

\* the buttons among the first lim whose dialog gave date d
SlotsGiving(d, lim) ==
    {k \in 1..lim : qEnv.slots[k].kind = "date" /\ qEnv.slots[k].date = d}

\* the first of them
FirstGiving(d, lim) ==
    CHOOSE k \in SlotsGiving(d, lim) : \A j \in SlotsGiving(d, lim) : k <= j

\* C11: a prober call that returns has attempted exactly the indices
\* 0..min(n, max_clicks)-1 in increasing order, and its output holds exactly
\* the dates parsed at those attempts, each once, ordered by first occurrence;
\* an attempt without a date neither adds anything nor stops the loop.
C11_ProberDedupe ==
    qPc = "done" =>
        LET lim == Min2(Len(qEnv.slots), qEnv.max_clicks) IN
        /\ qAttempts = [k \in 1..lim |-> k - 1]
        /\ \A a, b \in 1..Len(qOut) : a # b => qOut[a] # qOut[b]
        /\ Range(qOut) = {d \in ProbeDates : SlotsGiving(d, lim) # {}}
        /\ \A a, b \in 1..Len(qOut) :
              a < b => FirstGiving(qOut[a], lim) < FirstGiving(qOut[b], lim)

\* a date, an attempt without a date, the same date again, then an earlier date
C11_Witness ==
    /\ qPc = "done"
    /\ Len(qEnv.slots) = 4
    /\ qEnv.max_clicks = 4
    /\ qEnv.slots[1].date = <<2026, 3, 12>>
    /\ qEnv.slots[2].kind = "no_match"
    /\ qEnv.slots[3].date = <<2026, 3, 12>>
    /\ qEnv.slots[4].date = <<2026, 3, 10>>
    /\ qOut = <<<<2026, 3, 12>>, <<2026, 3, 10>>>>

(* C12.  End-to-end scenario 2.                                             *)

\* C12: when the run's first status is nxty, its fast-forward succeeds, the
\* status after the second jump is times, the seed probe reads at least one
\* date and the view does not re-render, the run goes from the seed probe to
\* the scanner's first pass and returns the least seed-probed date; the
\* fast-forward was called exactly once, the jump shortcut twice, and no
\* next-month click outside the fast-forward or next-week click occurred.
C12_Scenario2 ==
    hist.ffSeeds # {} =>
        /\ pc \in {"scan", "returned"}
        /\ pc = "scan" => hist.weekSteps = 0
        /\ pc = "returned" =>
              \E d \in hist.ffSeeds :
                  /\ \A e \in hist.ffSeeds : ~DateLT(e, d)
                  /\ r = <<Isoformat(d), "modal_date_min">>
        /\ hist.ffCount = 1
        /\ hist.jumps = 2
        /\ hist.monthIters = 2
        /\ hist.nextMonthClicks = 0
        /\ ~hist.clickedNextWeek

\* after the fast-forward the seed probe read one date and the run returned it
C12_Witness ==
    /\ pc = "returned"
    /\ hist.ffSeeds = {<<2026, 4, 2>>}
    /\ hist.ffCount = 1
    /\ r = <<Isoformat(<<2026, 4, 2>>), "modal_date_min">>

(* C13.  Navigation failure ends the run with absent.                       *)

\* C13: once line 499 is reached at the last month step, or the next-month
\* click of line 501 fails, or a next-month click of a fast-forward fails, the
\* run has returned absent: nothing is navigated or probed after it.
C13_StallReturnsAbsent ==
    hist.stall # "" => (pc = "returned" /\ r = None)

\* scenario 3: no availability at the month step and at every pass of the
\* forward week probe, then the next-month click fails
C13_Witness ==
    /\ pc = "returned"
    /\ r = None
    /\ hist.stall = "next_month"
    /\ hist.monthIters = 1
    /\ hist.clickedNextWeek
    /\ w = WEEK_PROBE_STEPS_DEFAULT - 1
    /\ hist.weekSteps = 0
    /\ hist.ffCount = 0

-----------------------------------------------------------------------------
(* C14.  Transient observation failures are never propagated.               *)

\* C14 as stated: no failure of a click or an observation leaves the slot
\* prober as an exception.
C14_NoEscape == qPc # "raised"

(* C15.  Slot Prober modal postcondition.                                   *)

\* C15 as stated: when a prober call has returned, no modal dialog is open,
\* whatever was open at entry, however many slot buttons there are, whatever
\* the cap and whatever the slot clicks did.
C15_NoModalAfter == qPc = "done" => ~qModal

-----------------------------------------------------------------------------
(* C16.  nxty during the forward week probe.                                *)

\* C16 as stated: when a fast-forward of the forward week probe has just
\* succeeded, the orchestrator is about to classify the view it landed on, in
\* the same month step and without a further next-month click.
C16_RestartsMonthStep ==
    hist.probeFF.step >= 0 =>
        /\ pc = "month_top"
        /\ month_step = hist.probeFF.step
        /\ hist.nextMonthClicks = hist.probeFF.clicks

(* C17.  Month Scanner accumulation is complete.                            *)

\* C17 as stated: the set a scanner invocation has accumulated, and the one it
\* returns, holds every date of the target month that its probes parsed.
C17_AccumulationComplete ==
    hist.weekSteps > 0 =>
        \A d \in hist.scanParsed : <<d[1], d[2]>> = month_ym => d \in found

-----------------------------------------------------------------------------
(* C18.  Month Scanner stop conditions.                                     *)

\* the passes before pass n of the scanner that had a representative date
EarlierReps(n) == {k \in 1..(n - 1) : hist.reps[k] # None}

\* the representative date of the latest of them, None if there is none
RepBefore(n) ==
    IF EarlierReps(n) = {} THEN None
    ELSE hist.reps[CHOOSE k \in EarlierReps(n) : \A j \in EarlierReps(n) : j <= k]

\* the representative date of the pass immediately before pass n, None if
\* that pass had none or n is the first
PrevStepRep(n) == IF n > 1 THEN hist.reps[n - 1] ELSE None

\* how the latest pass must have ended when its representative date is rep
\* and the date it is compared with is before
StopOrder(rep, before) ==
    LET inMonth == <<rep[1], rep[2]>> = month_ym IN
    /\ ~inMonth => hist.step.end = "break"
    /\ (inMonth /\ rep = before) => hist.step.end = "break"
    /\ (inMonth /\ rep # before) => hist.step.end \in {"clicked", "click_failed"}
    /\ hist.step.end \in {"break", "click_failed"} => pc # "scan"

\* C18 as stated: after a pass with a representative date (and no early
\* exit) the scanner stops without a next-week click when the date is outside
\* the month; else stops without a click exactly when the date equals the
\* representative date of the pass immediately before; else clicks next-week
\* and stops when the click fails.
C18_StopOnPreviousStep ==
    LET n == Len(hist.reps) IN
    (n > 0 /\ hist.reps[n] # None /\ hist.step.end # "return") =>
        StopOrder(hist.reps[n], PrevStepRep(n))

\* C18 amended: the same with, in place of the pass immediately before, the
\* latest earlier pass of the invocation that had a representative date:
\* passes without one in between do not clear it.
C18_StopConditions ==
    LET n == Len(hist.reps) IN
    (n > 0 /\ hist.reps[n] # None /\ hist.step.end # "return") =>
        StopOrder(hist.reps[n], RepBefore(n))

\* a date, a pass without a representative date, the same date again: stop
C18_Witness ==
    /\ Len(hist.reps) = 3
    /\ hist.reps[1] = <<2026, 3, 12>>
    /\ hist.reps[2] = None
    /\ hist.reps[3] = <<2026, 3, 12>>
    /\ month_ym = <<2026, 3>>
    /\ hist.step.end = "break"
    /\ pc = "returned"

(* C19.  Month Scanner on noavail, timeout and nxty.                        *)

\* C19 as stated: a pass whose status is noavail or timeout attempts no slot,
\* has no representative date and adds nothing to found; it is followed by
\* the attempt to click next-week when it is not the last permitted pass, and
\* by no next-week click when it is; a pass
\* whose status is nxty ends the scan at once, without a slot attempt, an
\* addition to found or a next-week click.
C19_QuietWeeks ==
    LET n == Len(hist.reps) IN
    /\ (n > 0 /\ hist.step.status \in {"noavail", "timeout"}) =>
          /\ ~hist.step.probed
          /\ hist.reps[n] = None
          /\ ~hist.step.added
          /\ hist.weekSteps < max_weeks_per_month =>
                 hist.step.end \in {"clicked", "click_failed"}
          /\ hist.weekSteps >= max_weeks_per_month => hist.step.end # "clicked"
    /\ (n > 0 /\ hist.step.status = "nxty") =>
          /\ ~hist.step.probed
          /\ hist.reps[n] = None
          /\ ~hist.step.added
          /\ hist.step.end = "break"
          /\ pc # "scan"

\* C20: every discovery run terminates.  When no call on the page raises, a
\* run that has started reaches its return, with a result or with absent;
\* meanwhile the month loop stays within max_month_forward + 1 passes, the
\* forward week probe within WEEK_PROBE_STEPS_DEFAULT passes and the scanner
\* within max_weeks_per_month passes, so the clicks of a run are finitely
\* many: at most one jump and FAST_FORWARD_MONTHS_ON_NEXT_YEAR next-month
\* clicks per fast-forward, one click per pass of either week loop, at most
\* max_time_clicks_per_week time clicks per probe.
Running == pc \in {"month_top", "week_probe", "scan"}

C20_Terminates ==
    /\ [](Running =>
            /\ month_step <= max_month_forward
            /\ hist.monthIters <= max_month_forward + 1
            /\ hist.ffCount <= hist.monthIters + 1
            /\ hist.jumps <= 1 + hist.ffCount
            /\ hist.nextMonthClicks <= max_month_forward
            /\ pc = "week_probe" => w < WEEK_PROBE_STEPS_DEFAULT
            /\ pc = "scan" => /\ w < max_weeks_per_month
                              /\ hist.weekClicks <= w)
    /\ Running ~> (pc = "returned" /\ (r = None \/ r[2] = "modal_date_min"))

\* a run that used every pass of the month loop, fast-forwarded on the way
\* and ended with absent
C20_Witness ==
    /\ pc = "returned"
    /\ r = None
    /\ hist.monthIters = max_month_forward + 1
    /\ hist.ffCount >= 1
    /\ hist.clickedNextWeek
    /\ hist.stall = "budget"

\* C21: browser lifecycle.  However a discovery run returns (a result, a
\* failed fast-forward at the head of a month pass or inside the forward week
\* probe, a failed next-month click, the month budget used up), the browser
\* has been closed exactly once and no call on the page was made on a closed
\* browser; while the run is under way the browser is open and has not been
\* closed, so the close is the run's last action on the browser.
C21_BrowserLifecycle ==
    /\ pc = "returned" =>
          /\ ~browser.open
          /\ browser.closes = 1
          /\ ~browser.late
    /\ Running =>
          /\ browser.open
          /\ browser.closes = 0
          /\ ~browser.late

\* a run that returned absent from a failed fast-forward after next-week
\* clicks, its browser closed once
C21_Witness ==
    /\ pc = "returned"
    /\ r = None
    /\ hist.stall = "fast_forward"
    /\ hist.clickedNextWeek
    /\ hist.monthIters >= 1
    /\ browser.closes = 1
    /\ ~browser.open

=============================================================================
